---- MODULE Spec2Model ----
(***************************************************************************)
(* Model of the pixelwise annotation tool (src/src/annotate.cpp).          *)
(*                                                                         *)
(* The program keeps its state in globals (markerSize, overlay, quit,      *)
(* mousePosition, zoomRect) and in the locals of annotate() and            *)
(* annotate_image(); the persisted state is the ledger file                *)
(* "<output_dir>/.annotated.txt" and one mask file per image.              *)
(*                                                                         *)
(* Arithmetic.  The source computes in float (global_pos) and in double    *)
(* (zoom, the pan steps) and converts the results to int.  The model       *)
(* computes every such operation as IEEE 754 does: the exact result,       *)
(* rounded to the nearest value of 24 or 53 significant bits (ties to      *)
(* even), and the conversion to int truncates toward zero.                 *)
(*                                                                         *)
(* Environment.  The directory is listed in the order of the file system  *)
(* (get_files_from_dir does not sort), so a session starts from every      *)
(* order of its files.  The trackbars are bound to markerSize and overlay: *)
(* a slider that moves writes its position to the variable.                *)
(*                                                                         *)
(* The state space of the whole program is the product of nearly           *)
(* independent components, so each is explored by its own specification    *)
(* over the same variables and the same actions:                           *)
(*   Spec       the session loop of annotate() with painting,              *)
(*   SpecFault  the same with a file system whose writes may fail,         *)
(*   SpecView   zoom / pan / reset of the viewport,                        *)
(*   SpecInput  marker size and overlay (wheel steps, keys, trackbars),    *)
(*   SpecPaint  mark() on a mask, for every marker size and cursor,        *)
(*   SpecStrokes sequences of marks on one mask,                           *)
(*   SpecAnchor zoom and pan on a large image with the cursor held still,  *)
(*   SpecReset  a session of two images with zoom, marker size and overlay,*)
(*   SpecWheel  the wheel steps with every modifier,                       *)
(*   SpecLive   Spec for a program that keeps running (weak fairness of    *)
(*              the loop exit).                                            *)
(***************************************************************************)
EXTENDS Integers, Sequences, FiniteSets, TLC

VARIABLES
    files,                 \* annotate(): the directory listing, a sequence of files
    skipTo,                \* annotate(): the --skip_to argument (<<>> is "")
    i,                     \* annotate(): index into files (0-based, an int)
    skipped,               \* annotate(): the skip target was reached
    alreadyAnnotatedFiles, \* annotate(): the ledger as read when the run started
    alreadyAnnotated,      \* annotate(): the current image was in that list
    imageName,             \* global: identity of the current image
    ledgerFile,            \* the lines of <output_dir>/.annotated.txt
    disk,                  \* per file (1-based): its mask file, or NoFile
    diskFaulty,            \* environment: whether a write to the output directory can fail
    written,               \* outcome of the writes of the last save: [mask, ledger]
    pc,                    \* "Loading" | "Interactive" | "Done" | "Crashed"
    quit,                  \* global quit
    cols, rows,            \* size of the image being annotated
    imageGT,               \* the mask being painted: pixel -> <<b, g, r>>
    zoomRect,              \* global zoomRect
    mousePosition,         \* global mousePosition
    markerSize,            \* global markerSize
    overlay,               \* global overlay
    strokes,               \* number of mark() calls on the current image (bounded)
    lastOp                 \* the handler branch that ran last

vars == <<files, skipTo, i, skipped, alreadyAnnotatedFiles, alreadyAnnotated,
          imageName, ledgerFile, disk, diskFaulty, written, pc, quit, cols, rows,
          imageGT,
          zoomRect, mousePosition, markerSize, overlay, strokes, lastOp>>

sessionVars == <<files, skipTo, i, skipped, alreadyAnnotatedFiles, alreadyAnnotated,
                 imageName, ledgerFile, disk, diskFaulty, written, quit>>

(***************************************************************************)
(* Bounds of the model.                                                    *)
(***************************************************************************)
\* Size of the image explored by SpecView.
ViewCols == 5
ViewRows == 3
\* Size of the image explored by SpecPaint.
PaintCols == 3
PaintRows == 2
\* Largest marker size drawn by SpecPaint (0 .. MaxPaintSize).
MaxPaintSize == 2
\* Size of the image explored by SpecAnchor.
AnchorCols == 132
AnchorRows == 5
\* Size of the image explored by SpecWheel.
WheelCols == 3
WheelRows == 2
\* mark() calls explored per image.
MaxStrokes == 1
\* SpecStrokes: size of the image, largest marker size and mark() calls.
StrokeCols == 3
StrokeRows == 2
MaxStrokeSize == 1
MaxSequence == 3
\* '+' is explored up to markerSize <= MaxMarker, '-' down to >= -MaxBelow.
MaxMarker == 60
MaxBelow == 10
\* The ledger file is explored up to this many lines.
MaxLedger == 4

(***************************************************************************)
(* Program constants.                                                      *)
(***************************************************************************)
InitialMarkerSize == 5
InitialOverlay == 35
WheelMarkerMax == 50
WheelMarkerMin == 1
WheelOverlayMax == 100
WheelOverlayMin == 0
MarkerKeyStep == 5
\* The maxima of the trackbars "Size" and "Blending"; their minimum is 0.
SizeTrackbarMax == 50
BlendingTrackbarMax == 100
OverlayStep == 5
\* imageName is the 6 characters that start 10 before the end of the path.
NameOffset == 10
NameLength == 6
\* Significant bits of float (global_pos) and of double (zoom, pan).
FloatBits == 24
DoubleBits == 53
\* The fixed point numbers of the model's arithmetic.
LimbBits == 15
LimbBase == 32768
FracLimbs == 5

WHITE == <<255, 255, 255>>
BLACK == <<0, 0, 0>>
\* A mask file of the output directory: absent, or a gray raster.
NoFile == [exists |-> FALSE, gray |-> <<>>]
MaskFile(gray) == [exists |-> TRUE, gray |-> gray]

Min(a, b) == IF a <= b THEN a ELSE b
Max(a, b) == IF a >= b THEN a ELSE b
Clamp(v, lo, hi) == Max(lo, Min(v, hi))

Point(x, y) == [x |-> x, y |-> y]
Rect(x, y, w, h) == [x |-> x, y |-> y, width |-> w, height |-> h]
Pixels(c, r) == (0 .. c - 1) \X (0 .. r - 1)

(***************************************************************************)
(* IEEE 754 arithmetic on nonnegative values.  A value is held exactly as  *)
(* a fixed point number: a sequence of limbs of LimbBits bits, the least   *)
(* significant first, of which the first FracLimbs are the fraction and    *)
(* the last two the integer part.  A quotient is a record [big, sticky]:   *)
(* the quotient cut off after the fraction, and whether anything was cut   *)
(* off.  Float and Double round to FloatBits and DoubleBits significant    *)
(* bits.  The limbs are small enough for every product below to stay       *)
(* within 32 bits: the integers involved are below LimbBase.               *)
(***************************************************************************)
PowersOfTwo == <<1, 2, 4, 8, 16, 32, 64, 128, 256, 512, 1024, 2048, 4096, 8192, 16384>>
Pow2(k) == PowersOfTwo[k + 1]

RECURSIVE Zeros(_)
Zeros(n) == IF n = 0 THEN <<>> ELSE <<0>> \o Zeros(n - 1)

BigOfInt(v) == Zeros(FracLimbs) \o <<v % LimbBase, v \div LimbBase>>
BigTrunc(a) == a[FracLimbs + 1] + LimbBase * a[FracLimbs + 2]
BigZero == BigOfInt(0)

RECURSIVE DivLimbs(_, _, _)
DivLimbs(r, d, count) ==
    IF count = 0 THEN [limbs |-> <<>>, rem |-> r]
    ELSE LET rest == DivLimbs((r * LimbBase) % d, d, count - 1)
         IN  [limbs |-> rest.limbs \o <<(r * LimbBase) \div d>>, rem |-> rest.rem]

BigDiv(n, d) ==
    LET f == DivLimbs(n % d, d, FracLimbs)
    IN  [big |-> f.limbs \o <<(n \div d) % LimbBase, (n \div d) \div LimbBase>>,
         sticky |-> f.rem # 0]

RECURSIVE MulFrom(_, _, _, _)
MulFrom(a, s, k, carry) ==
    IF k > Len(a) THEN <<>>
    ELSE LET v == a[k] * s + carry
         IN  <<v % LimbBase>> \o MulFrom(a, s, k + 1, v \div LimbBase)
BigMulSmall(a, s) == MulFrom(a, s, 1, 0)

RECURSIVE AddFrom(_, _, _, _)
AddFrom(a, b, k, carry) ==
    IF k > Len(a) THEN <<>>
    ELSE LET v == a[k] + b[k] + carry
         IN  <<v % LimbBase>> \o AddFrom(a, b, k + 1, v \div LimbBase)
BigAdd(a, b) == AddFrom(a, b, 1, 0)

RECURSIVE SubFrom(_, _, _, _)
SubFrom(a, b, k, borrow) ==
    IF k > Len(a) THEN <<>>
    ELSE LET v == a[k] - b[k] - borrow
         IN  <<v % LimbBase>> \o SubFrom(a, b, k + 1, IF v < 0 THEN 1 ELSE 0)
BigSub(a, b) == SubFrom(a, b, 1, 0)

RECURSIVE LessFrom(_, _, _)
LessFrom(a, b, k) ==
    IF k = 0 THEN FALSE
    ELSE IF a[k] # b[k] THEN a[k] < b[k] ELSE LessFrom(a, b, k - 1)
BigLess(a, b) == LessFrom(a, b, Len(a))

RECURSIVE TopLimb(_, _)
TopLimb(a, k) == IF k = 0 THEN 0 ELSE IF a[k] # 0 THEN k ELSE TopLimb(a, k - 1)
RECURSIVE BitsOf(_)
BitsOf(v) == IF v = 0 THEN 0 ELSE 1 + BitsOf(v \div 2)
BitLen(a) ==
    LET t == TopLimb(a, Len(a))
    IN  IF t = 0 THEN 0 ELSE (t - 1) * LimbBits + BitsOf(a[t])

\* The limb that holds bit j, and the weight of bit j in it.
LimbOf(j) == j \div LimbBits + 1
UnitOf(j) == Pow2(j % LimbBits)

Bit(a, j) == (a[LimbOf(j)] \div UnitOf(j)) % 2
LowNonzero(a, limb, unit) ==
    \/ a[limb] % unit # 0
    \/ \E k \in 1 .. limb - 1 : a[k] # 0

RECURSIVE KeepFrom(_, _, _, _)
KeepFrom(a, limb, unit, k) ==
    IF k > Len(a) THEN <<>>
    ELSE <<IF k < limb THEN 0
           ELSE IF k = limb THEN a[k] - (a[k] % unit)
           ELSE a[k]>> \o KeepFrom(a, limb, unit, k + 1)
RECURSIVE UnitFrom(_, _, _, _)
UnitFrom(limb, unit, k, n) ==
    IF k > n THEN <<>>
    ELSE <<IF k = limb THEN unit ELSE 0>> \o UnitFrom(limb, unit, k + 1, n)

RoundTo(a, sticky, prec) ==
    LET drop == BitLen(a) - prec
    IN  IF drop <= 0 THEN a
        ELSE LET half == Bit(a, drop - 1) = 1
                 odd == Bit(a, drop) = 1
                 rest == sticky \/ LowNonzero(a, LimbOf(drop - 1), UnitOf(drop - 1))
                 kept == KeepFrom(a, LimbOf(drop), UnitOf(drop), 1)
             IN  IF half /\ (rest \/ odd)
                 THEN BigAdd(kept, UnitFrom(LimbOf(drop), UnitOf(drop), 1, Len(a)))
                 ELSE kept

Float(q) == RoundTo(q.big, q.sticky, FloatBits)
Double(q) == RoundTo(q.big, q.sticky, DoubleBits)
Exact(a) == [big |-> a, sticky |-> FALSE]

RECURSIVE QuotientLimb(_, _, _, _)
QuotientLimb(rem, d, lo, hi) ==
    IF lo = hi THEN lo
    ELSE LET mid == (lo + hi + 1) \div 2
         IN  IF BigLess(rem, BigMulSmall(d, mid))
             THEN QuotientLimb(rem, d, lo, mid - 1)
             ELSE QuotientLimb(rem, d, mid, hi)

RECURSIVE RecipLimbs(_, _, _)
RecipLimbs(d, rem, count) ==
    IF count = 0 THEN [limbs |-> <<>>, sticky |-> rem # BigZero]
    ELSE LET q == QuotientLimb(rem, d, 0, LimbBase - 1)
             rest == RecipLimbs(d, BigMulSmall(BigSub(rem, BigMulSmall(d, q)), LimbBase),
                                count - 1)
         IN  [limbs |-> rest.limbs \o <<q>>, sticky |-> rest.sticky]

BigRecip(d) ==
    LET q == RecipLimbs(d, BigOfInt(1), FracLimbs + 1)
    IN  [big |-> q.limbs \o <<0>>, sticky |-> q.sticky]

\* The double constants of the source.
ZoomInKey == Double(BigDiv(4, 5))                \* 0.8
ZoomOutKey == Double(BigRecip(ZoomInKey))        \* 1.0 / 0.8
ZoomInWheel == Double(BigDiv(19, 20))            \* 0.95
ZoomOutWheel == Double(BigRecip(ZoomInWheel))    \* 1.0 / 0.95
PanFraction == Double(BigDiv(1, 5))              \* 0.2

\* zoomRect.x + (mousePosition.x * zoomWidthFactor) with zoomWidthFactor =
\* zoomRect.width / static_cast<float>(cols): float arithmetic, then the
\* conversion to the int coordinate of cv::Point.
Project(origin, mouse, length, size) ==
    LET zoomFactor == Float(BigDiv(length, size))
        offset == Float(Exact(BigMulSmall(zoomFactor, mouse)))
    IN  BigTrunc(Float(Exact(BigAdd(BigOfInt(origin), offset))))

(***************************************************************************)
(* global_pos: the cursor projected back onto the image.                   *)
(***************************************************************************)
global_pos(rect, mouse, c, r) ==
    Point(Project(rect.x, mouse.x, rect.width, c),
          Project(rect.y, mouse.y, rect.height, r))

\* static_cast<int>(length * factor), factor a double
ScaleInt(length, factor) == BigTrunc(Double(Exact(BigMulSmall(factor, length))))

\* static_cast<int>(zoomPosition.x - (width_ratio * zoomRect.width)) with
\* width_ratio = mousePosition.x / static_cast<double>(cols)
Reanchor(position, mouse, length, size) ==
    LET ratio == Double(BigDiv(mouse, size))
        offset == Double(Exact(BigMulSmall(ratio, length)))
        pos == BigOfInt(position)
    IN  IF BigLess(pos, offset)
        THEN -BigTrunc(Double(Exact(BigSub(offset, pos))))
        ELSE BigTrunc(Double(Exact(BigSub(pos, offset))))

\* zoom without the clamps of lines 74 and 80 (x <= cols - width, y <= rows - height).
ZoomNoUpperClamp(factor, rect, mouse, c, r) ==
    LET zoomPosition == global_pos(rect, mouse, c, r)
        w == Min(c, ScaleInt(rect.width, factor))
        h == Min(r, ScaleInt(rect.height, factor))
    IN  Rect(Max(0, Reanchor(zoomPosition.x, mouse.x, w, c)),
             Max(0, Reanchor(zoomPosition.y, mouse.y, h, r)), w, h)

(***************************************************************************)
(* zoom(factor, image): the new zoomRect.                                  *)
(***************************************************************************)
zoom(factor, rect, mouse, c, r) ==
    LET zoomPosition == global_pos(rect, mouse, c, r)
        w == Min(c, ScaleInt(rect.width, factor))
        h == Min(r, ScaleInt(rect.height, factor))
        x0 == Max(0, Reanchor(zoomPosition.x, mouse.x, w, c))
        y0 == Max(0, Reanchor(zoomPosition.y, mouse.y, h, r))
    IN  Rect(Min(x0, c - w), Min(y0, r - h), w, h)

\* cv::rectangle(img, pt1, pt2, color, CV_FILLED): both corners inclusive,
\* in either order, clipped to the image.
Rectangle(img, pt1, pt2, color) ==
    [p \in DOMAIN img |->
        IF /\ Min(pt1.x, pt2.x) <= p[1] /\ p[1] <= Max(pt1.x, pt2.x)
           /\ Min(pt1.y, pt2.y) <= p[2] /\ p[2] <= Max(pt1.y, pt2.y)
        THEN color ELSE img[p]]

\* mark with the cursor in the centre of a square of side 2 * size.
MarkCentred(img, asGT, rect, mouse, size, c, r) ==
    LET globalCursorPos == global_pos(rect, mouse, c, r)
        topLeft == Point(globalCursorPos.x - size, globalCursorPos.y - size)
        bottomRight == Point(topLeft.x + 2 * size, topLeft.y + 2 * size)
    IN  Rectangle(img, topLeft, bottomRight, IF asGT THEN WHITE ELSE BLACK)

\* mark that inverts the pixels of its square instead of writing one colour.
MarkToggle(img, asGT, rect, mouse, size, c, r) ==
    LET globalCursorPos == global_pos(rect, mouse, c, r)
        topLeft == Point(globalCursorPos.x - size, globalCursorPos.y - size)
        bottomRight == Point(topLeft.x + size, topLeft.y + size)
        inverted == [p \in DOMAIN img |-> IF img[p] = WHITE THEN BLACK ELSE WHITE]
    IN  [p \in DOMAIN img |->
            IF Rectangle(img, topLeft, bottomRight, <<>>)[p] = <<>>
            THEN inverted[p] ELSE img[p]]

\* mark whose clear wipes the whole mask.
MarkClearAll(img, asGT, rect, mouse, size, c, r) ==
    LET globalCursorPos == global_pos(rect, mouse, c, r)
        topLeft == Point(globalCursorPos.x - size, globalCursorPos.y - size)
        bottomRight == Point(topLeft.x + size, topLeft.y + size)
    IN  IF asGT THEN Rectangle(img, topLeft, bottomRight, WHITE)
        ELSE [p \in DOMAIN img |-> BLACK]

(***************************************************************************)
(* mark(imageGT, asGT): the new mask.                                      *)
(***************************************************************************)
mark(img, asGT, rect, mouse, size, c, r) ==
    LET globalCursorPos == global_pos(rect, mouse, c, r)
        topLeft == Point(globalCursorPos.x - size, globalCursorPos.y - size)
        bottomRight == Point(topLeft.x + size, topLeft.y + size)
    IN  Rectangle(img, topLeft, bottomRight, IF asGT THEN WHITE ELSE BLACK)

(***************************************************************************)
(* Input events.  The toolkit reports the cursor in image coordinates,     *)
(* possibly outside the image (the 'f' and 'g' handlers test for it).                                    *)
(***************************************************************************)
MouseXs == 0 .. cols + 1
MouseYs == 0 .. rows + 1

\* create_image_to_show: cv::resize of blend(zoomRect) raises on an empty
\* region, which ends the program.
Renderable(rect) == rect.width > 0 /\ rect.height > 0

\* One iteration of the loop of annotate_image ends by rendering.
AfterRender(rect) == IF Renderable(rect) THEN "Interactive" ELSE "Crashed"

(***************************************************************************)
(* onMouse(event, x, y, flags, userdata).  flags is the set of pressed     *)
(* buttons and modifiers, inwards is getMouseWheelDelta(flags) < 0.        *)
(***************************************************************************)
MouseEvents == {"MOUSEMOVE", "LBUTTONDOWN", "RBUTTONDOWN", "LBUTTONUP",
                "MOUSEWHEEL", "MOUSEHWHEEL"}
MouseFlags == {"LBUTTON", "RBUTTON", "CTRLKEY", "SHIFTKEY"}

\* The wheel branches with shift tested before ctrl.
MouseBranchShiftFirst(event, flags, inwards) ==
    CASE event = "LBUTTONDOWN" \/ (event = "MOUSEMOVE" /\ "LBUTTON" \in flags)
            -> "mark_set"
      [] event = "RBUTTONDOWN" \/ (event = "MOUSEMOVE" /\ "RBUTTON" \in flags)
            -> "mark_clear"
      [] event = "MOUSEMOVE" -> "move"
      [] event = "MOUSEHWHEEL" /\ "SHIFTKEY" \in flags
            -> IF inwards THEN "wheel_overlay_up" ELSE "wheel_overlay_down"
      [] event = "MOUSEHWHEEL" /\ "CTRLKEY" \in flags
            -> IF inwards THEN "wheel_zoom_in" ELSE "wheel_zoom_out"
      [] event = "MOUSEHWHEEL"
            -> IF inwards THEN "wheel_size_up" ELSE "wheel_size_down"
      [] OTHER -> "ignored"

\* The branch of onMouse that an event takes.
MouseBranch(event, flags, inwards) ==
    CASE event = "LBUTTONDOWN" \/ (event = "MOUSEMOVE" /\ "LBUTTON" \in flags)
            -> "mark_set"
      [] event = "RBUTTONDOWN" \/ (event = "MOUSEMOVE" /\ "RBUTTON" \in flags)
            -> "mark_clear"
      [] event = "MOUSEMOVE" -> "move"
      [] event = "MOUSEHWHEEL" /\ "CTRLKEY" \in flags
            -> IF inwards THEN "wheel_zoom_in" ELSE "wheel_zoom_out"
      [] event = "MOUSEHWHEEL" /\ "SHIFTKEY" \in flags
            -> IF inwards THEN "wheel_overlay_up" ELSE "wheel_overlay_down"
      [] event = "MOUSEHWHEEL"
            -> IF inwards THEN "wheel_size_up" ELSE "wheel_size_down"
      [] OTHER -> "ignored"

\* The overlay step upwards without its limit.
OverlayUpUnclamped(v) == v + OverlayStep

\* std::min(overlay + 5, 100) and std::max(overlay - 5, 0)
OverlayUp(v) == Min(v + OverlayStep, WheelOverlayMax)
OverlayDown(v) == Max(v - OverlayStep, WheelOverlayMin)

\* std::min(markerSize + 1, 50) and std::max(markerSize - 1, 1)
MarkerUp(v) == Min(v + 1, WheelMarkerMax)
MarkerDown(v) == Max(v - 1, WheelMarkerMin)

\* cv::setTrackbarPos on a trackbar of range 0 .. count that createTrackbar
\* bound to a variable: the slider stands at the last value of the variable
\* within its range, and the variable now holds pos.  The slider goes to pos
\* within its range; when that moves it, the new position is written to the
\* variable, otherwise the variable keeps pos.
setTrackbarPos(was, pos, count) ==
    IF Clamp(pos, 0, count) # Clamp(was, 0, count) THEN Clamp(pos, 0, count) ELSE pos

onMouse(event, x, y, flags, inwards) ==
    LET branch == MouseBranch(event, flags, inwards)
        mouse == IF event \notin {"MOUSEWHEEL", "MOUSEHWHEEL"}
                 THEN Point(x, y) ELSE mousePosition
    IN  /\ pc = "Interactive"
        /\ mousePosition' = mouse
        /\ imageGT' = IF branch \in {"mark_set", "mark_clear"}
                      THEN mark(imageGT, branch = "mark_set", zoomRect, mouse,
                                markerSize, cols, rows)
                      ELSE imageGT
        /\ strokes' = IF branch \in {"mark_set", "mark_clear"}
                      THEN strokes + 1 ELSE strokes
        /\ zoomRect' = CASE branch = "wheel_zoom_in"
                              -> zoom(ZoomInWheel, zoomRect, mouse, cols, rows)
                         [] branch = "wheel_zoom_out"
                              -> zoom(ZoomOutWheel, zoomRect, mouse, cols, rows)
                         [] OTHER -> zoomRect
        /\ overlay' = CASE branch = "wheel_overlay_up"
                             -> setTrackbarPos(overlay, OverlayUp(overlay),
                                               BlendingTrackbarMax)
                        [] branch = "wheel_overlay_down"
                             -> setTrackbarPos(overlay, OverlayDown(overlay),
                                               BlendingTrackbarMax)
                        [] OTHER -> overlay
        /\ markerSize' = CASE branch = "wheel_size_up"
                                -> setTrackbarPos(markerSize, MarkerUp(markerSize),
                                                  SizeTrackbarMax)
                           [] branch = "wheel_size_down"
                                -> setTrackbarPos(markerSize, MarkerDown(markerSize),
                                                  SizeTrackbarMax)
                           [] OTHER -> markerSize
        /\ lastOp' = branch
        /\ UNCHANGED <<sessionVars, pc, cols, rows>>

\* Events by kind, as the toolkit delivers them.
PaintInputs ==
    {[event |-> "LBUTTONDOWN", flags |-> {"LBUTTON"}],
     [event |-> "RBUTTONDOWN", flags |-> {"RBUTTON"}],
     [event |-> "MOUSEMOVE", flags |-> {"LBUTTON"}],
     [event |-> "MOUSEMOVE", flags |-> {"RBUTTON"}],
     [event |-> "MOUSEMOVE", flags |-> {"LBUTTON", "RBUTTON"}]}

\* A button is pressed, or the cursor moves with a button held, at a position
\* of xs \X ys.  The source does not limit the mark() calls on an image; the
\* guard ends the exploration after most of them.
PaintWithin(xs, ys, most) ==
    /\ strokes < most
    /\ \E in \in PaintInputs, x \in xs, y \in ys :
            onMouse(in.event, x, y, in.flags, FALSE)

PaintEvent == PaintWithin(MouseXs, MouseYs, MaxStrokes)

\* The same with the cursor on the displayed image.
PaintOnImage == PaintWithin(0 .. cols - 1, 0 .. rows - 1, MaxStrokes)

\* A sequence of marks with the cursor on the displayed image.
PaintSequence == PaintWithin(0 .. cols - 1, 0 .. rows - 1, MaxSequence)

\* The cursor moves, no button held, to a position of xs \X ys.
MoveWithin(xs, ys) ==
    \E x \in xs, y \in ys : onMouse("MOUSEMOVE", x, y, {}, FALSE)

MoveEvent == MoveWithin(MouseXs, MouseYs)

WheelZoomEvent ==
    \E mods \in {{"CTRLKEY"}, {"CTRLKEY", "SHIFTKEY"}}, inwards \in BOOLEAN :
        onMouse("MOUSEHWHEEL", mousePosition.x, mousePosition.y, mods, inwards)

WheelOverlayEvent ==
    \E inwards \in BOOLEAN :
        onMouse("MOUSEHWHEEL", mousePosition.x, mousePosition.y, {"SHIFTKEY"}, inwards)

WheelSizeEvent ==
    \E inwards \in BOOLEAN :
        onMouse("MOUSEHWHEEL", mousePosition.x, mousePosition.y, {}, inwards)

VerticalWheelEvent ==
    \E mods \in SUBSET {"CTRLKEY", "SHIFTKEY"}, inwards \in BOOLEAN :
        onMouse("MOUSEWHEEL", mousePosition.x, mousePosition.y, mods, inwards)

(***************************************************************************)
(* The trackbars "Size" and "Blending" of annotate_image, bound to         *)
(* markerSize and overlay: the operator moves a slider to another position *)
(* of its range, the toolkit writes the position to the variable and calls *)
(* the callback, which is empty.                                           *)
(***************************************************************************)
TrackbarStep(op, size, blend) ==
    /\ pc = "Interactive"
    /\ markerSize' = size
    /\ overlay' = blend
    /\ lastOp' = op
    /\ UNCHANGED <<sessionVars, pc, cols, rows, imageGT, zoomRect, mousePosition, strokes>>

onTrackbarSizeChange ==
    \E pos \in 0 .. SizeTrackbarMax :
        /\ pos # Clamp(markerSize, 0, SizeTrackbarMax)
        /\ TrackbarStep("trackbar_size", pos, overlay)

onTrackbarBlendingChange ==
    \E pos \in 0 .. BlendingTrackbarMax :
        /\ pos # Clamp(overlay, 0, BlendingTrackbarMax)
        /\ TrackbarStep("trackbar_blending", markerSize, pos)

(***************************************************************************)
(* The key handlers of annotate_image that stay on the image: the switch   *)
(* branch, then the render that ends the loop iteration.                   *)
(***************************************************************************)
KeyStep(op, rect, size) ==
    /\ pc = "Interactive"
    /\ zoomRect' = rect
    /\ markerSize' = size
    /\ pc' = AfterRender(rect)
    /\ lastOp' = op
    /\ UNCHANGED <<sessionVars, cols, rows, imageGT, mousePosition, overlay, strokes>>

CursorOutside == mousePosition.x > cols \/ mousePosition.y > rows

\* '+' and '-': markerSize has no bound in the source; the guards end the
\* exploration at MaxMarker and -MaxBelow.
KeyPlus ==
    /\ markerSize + MarkerKeyStep <= MaxMarker
    /\ KeyStep("key_plus", zoomRect,
               setTrackbarPos(markerSize, markerSize + MarkerKeyStep, SizeTrackbarMax))

KeyMinus ==
    /\ markerSize - MarkerKeyStep >= -MaxBelow
    /\ KeyStep("key_minus", zoomRect,
               setTrackbarPos(markerSize, markerSize - MarkerKeyStep, SizeTrackbarMax))

KeyZoomIn ==
    KeyStep("key_f",
            IF CursorOutside THEN zoomRect
            ELSE zoom(ZoomInKey, zoomRect, mousePosition, cols, rows),
            markerSize)

KeyZoomOut ==
    KeyStep("key_g",
            IF CursorOutside THEN zoomRect
            ELSE zoom(ZoomOutKey, zoomRect, mousePosition, cols, rows),
            markerSize)

KeyZoomReset == KeyStep("key_G", Rect(0, 0, cols, rows), markerSize)

PanLeft ==
    KeyStep("key_a",
            [zoomRect EXCEPT !.x = Max(0, zoomRect.x - ScaleInt(zoomRect.width, PanFraction))],
            markerSize)

PanUp ==
    KeyStep("key_w",
            [zoomRect EXCEPT !.y = Max(0, zoomRect.y - ScaleInt(zoomRect.height, PanFraction))],
            markerSize)

PanRight ==
    KeyStep("key_d",
            [zoomRect EXCEPT !.x = Min(cols - zoomRect.width,
                                       zoomRect.x + ScaleInt(zoomRect.width, PanFraction))],
            markerSize)

PanDown ==
    KeyStep("key_s",
            [zoomRect EXCEPT !.y = Min(rows - zoomRect.height,
                                       zoomRect.y + ScaleInt(zoomRect.height, PanFraction))],
            markerSize)

\* waitKey timed out, or a key without a state change ('i', 'z', any other):
\* the frame is rendered again.
Tick == KeyStep("tick", zoomRect, markerSize)

(***************************************************************************)
(* annotate(): the session loop.                                           *)
(***************************************************************************)
Range(seq) == {seq[k] : k \in 1 .. Len(seq)}

\* while (i < files.size()): the int i is compared as an unsigned value, so a
\* negative index ends the loop like one past the end.
InRange == 0 <= i /\ i < Len(files)

\* files[i] (the model's sequences are 1-based).
CurrentFile == files[i + 1]

\* image_file.string().substr(size - 10, 6)
NameOf(path) ==
    SubSeq(path, Len(path) - NameOffset + 1, Len(path) - NameOffset + NameLength)

\* cv::cvtColor(imageGT, output_image, cv::COLOR_RGB2GRAY), per pixel, in the
\* fixed point arithmetic of the library.
GrayOf(px) == (px[1] * 4899 + px[2] * 9617 + px[3] * 1868 + 8192) \div 16384
ToGray(img) == [p \in DOMAIN img |-> GrayOf(img[p])]

\* cv::imread(output_file): a gray file read back as three equal channels.
FromGray(gray) == [p \in DOMAIN gray |-> <<gray[p], gray[p], gray[p]>>]

BlackImage(c, r) == [p \in Pixels(c, r) |-> BLACK]

\* A loop that starts over at the first image when the index leaves the list.
LoopExitWrap ==
    /\ pc = "Loading"
    /\ ~InRange
    /\ i' = 0
    /\ lastOp' = "exit"
    /\ UNCHANGED <<files, skipTo, skipped, alreadyAnnotatedFiles, alreadyAnnotated,
                   imageName, ledgerFile, disk, diskFaulty, written, quit, pc, cols,
                   rows, imageGT, zoomRect, mousePosition, markerSize, overlay,
                   strokes>>

\* The loop ends.
LoopExit ==
    /\ pc = "Loading"
    /\ ~InRange
    /\ pc' = "Done"
    /\ lastOp' = "exit"
    /\ UNCHANGED <<sessionVars, cols, rows, imageGT, zoomRect, mousePosition,
                   markerSize, overlay, strokes>>

\* image.empty(): the message is printed and the loop continues with the same i.
LoadFailed ==
    /\ pc = "Loading"
    /\ InRange
    /\ ~CurrentFile.readable
    /\ lastOp' = "load_failed"
    /\ UNCHANGED <<files, skipTo, i, skipped, alreadyAnnotatedFiles, alreadyAnnotated,
                   imageName, ledgerFile, disk, diskFaulty, written, quit, pc,
                   cols, rows, imageGT, zoomRect, mousePosition, markerSize,
                   overlay, strokes>>

IsAnnotated(name) == name \in Range(alreadyAnnotatedFiles)

\* The pass-over test without the ledger (line 366 left out).
PassedOverTargetOnly(name) == ~skipped /\ skipTo # name

\* The image is loaded and passed over: the skip target is not reached yet, or
\* the image is in the ledger read at the start.
PassedOver(name) ==
    \/ ~skipped /\ skipTo # name
    \/ skipped /\ IsAnnotated(name)

PassOver ==
    /\ pc = "Loading"
    /\ InRange
    /\ CurrentFile.readable
    /\ PassedOver(NameOf(CurrentFile.path))
    /\ imageName' = NameOf(CurrentFile.path)
    /\ alreadyAnnotated' = IsAnnotated(imageName')
    /\ i' = i + 1
    /\ lastOp' = "pass_over"
    /\ UNCHANGED <<files, skipTo, skipped, alreadyAnnotatedFiles, ledgerFile, disk,
                   diskFaulty, written, quit, pc, cols, rows, imageGT, zoomRect,
                   mousePosition, markerSize, overlay, strokes>>

\* Present without the reset of line 233: the viewport of the image before.
PresentKeepView ==
    /\ pc = "Loading"
    /\ InRange
    /\ CurrentFile.readable
    /\ ~PassedOver(NameOf(CurrentFile.path))
    /\ imageName' = NameOf(CurrentFile.path)
    /\ alreadyAnnotated' = IsAnnotated(imageName')
    /\ skipped' = TRUE
    /\ cols' = CurrentFile.cols
    /\ rows' = CurrentFile.rows
    /\ imageGT' = IF disk[i + 1].exists THEN FromGray(disk[i + 1].gray)
                  ELSE BlackImage(CurrentFile.cols, CurrentFile.rows)
    /\ strokes' = 0
    /\ pc' = "Interactive"
    /\ lastOp' = "present"
    /\ UNCHANGED <<files, skipTo, i, alreadyAnnotatedFiles, ledgerFile, disk,
                   diskFaulty, written, quit, mousePosition, markerSize, overlay,
                   zoomRect>>

\* The image is presented: its mask is read or created, and annotate_image
\* starts on the full image.
Present ==
    /\ pc = "Loading"
    /\ InRange
    /\ CurrentFile.readable
    /\ ~PassedOver(NameOf(CurrentFile.path))
    /\ imageName' = NameOf(CurrentFile.path)
    /\ alreadyAnnotated' = IsAnnotated(imageName')
    /\ skipped' = TRUE
    /\ cols' = CurrentFile.cols
    /\ rows' = CurrentFile.rows
    /\ imageGT' = IF disk[i + 1].exists THEN FromGray(disk[i + 1].gray)
                  ELSE BlackImage(CurrentFile.cols, CurrentFile.rows)
    /\ zoomRect' = Rect(0, 0, cols', rows')
    /\ strokes' = 0
    /\ pc' = "Interactive"
    /\ lastOp' = "present"
    /\ UNCHANGED <<files, skipTo, i, alreadyAnnotatedFiles, ledgerFile, disk,
                   diskFaulty, written, quit, mousePosition, markerSize, overlay>>

\* What a write to the output directory can do: succeed, or fail when the
\* environment is faulty (cv::imwrite returns false, the ofstream does not open).
WriteOutcomes == IF diskFaulty THEN {TRUE, FALSE} ELSE {TRUE}

\* The ledger file after the save of the current image.
LedgerAfterSave(ledgerOk) ==
    IF ~alreadyAnnotated /\ ledgerOk THEN Append(ledgerFile, imageName)
    ELSE ledgerFile

\* A save that leaves out cv::imwrite (line 397).
DiskAfterSaveNothing(maskOk) == disk

\* The mask files after the save of the current image.
DiskAfterSave(maskOk) ==
    IF maskOk THEN [disk EXCEPT ![i + 1] = MaskFile(ToGray(imageGT))] ELSE disk

\* 'n' / enter (delta = 1) and 'p' / backspace (delta = -1): annotate_image
\* returns delta, and annotate() moves the index, saves the mask and records
\* the image.
Advance(delta) ==
    /\ pc = "Interactive"
    /\ alreadyAnnotated \/ Len(ledgerFile) < MaxLedger
    /\ \E maskOk \in WriteOutcomes, ledgerOk \in WriteOutcomes :
        /\ disk' = DiskAfterSave(maskOk)
        /\ ledgerFile' = LedgerAfterSave(ledgerOk)
        /\ written' = [mask |-> maskOk, ledger |-> alreadyAnnotated \/ ledgerOk]
    /\ i' = i + delta
    /\ pc' = "Loading"
    /\ lastOp' = IF delta = 1 THEN "next" ELSE "previous"
    /\ UNCHANGED <<files, skipTo, skipped, alreadyAnnotatedFiles, alreadyAnnotated,
                   imageName, diskFaulty, quit, cols, rows, imageGT, zoomRect,
                   mousePosition, markerSize, overlay, strokes>>

NextImage == Advance(1)
PreviousImage == Advance(-1)

\* Quit without the early return of lines 390-392: the image is saved first.
QuitAfterSave ==
    /\ pc = "Interactive"
    /\ quit' = TRUE
    /\ disk' = DiskAfterSave(TRUE)
    /\ ledgerFile' = LedgerAfterSave(TRUE)
    /\ pc' = "Done"
    /\ lastOp' = "quit"
    /\ UNCHANGED <<files, skipTo, i, skipped, alreadyAnnotatedFiles, alreadyAnnotated,
                   imageName, diskFaulty, written, cols, rows, imageGT, zoomRect,
                   mousePosition, markerSize, overlay, strokes>>

\* 'q' / escape: quit is set, annotate_image returns 0 and annotate() returns.
Quit ==
    /\ pc = "Interactive"
    /\ quit' = TRUE
    /\ pc' = "Done"
    /\ lastOp' = "quit"
    /\ UNCHANGED <<files, skipTo, i, skipped, alreadyAnnotatedFiles, alreadyAnnotated,
                   imageName, ledgerFile, disk, diskFaulty, written, cols, rows,
                   imageGT, zoomRect, mousePosition, markerSize, overlay, strokes>>

(***************************************************************************)
(* Initial states.                                                         *)
(***************************************************************************)
N122 == <<"0", "0", "0", "1", "2", "2">>
N123 == <<"0", "0", "0", "1", "2", "3">>
N124 == <<"0", "0", "0", "1", "2", "4">>
N125 == <<"0", "0", "0", "1", "2", "5">>
N999 == <<"0", "0", "0", "9", "9", "9">>

\* A file of the image directory: "img/<name>.png".
File(name, readable, c, r) ==
    [path |-> <<"i", "m", "g", "/">> \o name \o <<".", "p", "n", "g">>,
     readable |-> readable, cols |-> c, rows |-> r]

\* get_files_from_dir: the files in the order the directory iterator
\* delivers them, which is any order of the directory's entries.
DirectoryOrders(entries) ==
    {order \in [1 .. Cardinality(entries) -> entries] :
        \A j, k \in DOMAIN order : order[j] = order[k] => j = k}

\* Directory listings of the session: four images of one pixel each, all
\* readable or 000123 unreadable, in every order.
Listings ==
    UNION {DirectoryOrders({File(N122, TRUE, 1, 1), File(N123, readable, 1, 1),
                            File(N124, TRUE, 1, 1), File(N125, TRUE, 1, 1)}) :
              readable \in BOOLEAN}

SkipTargets == {<<>>, N123, N125, N999}
InitialLedgers == {<<>>, <<N123, N124>>}

\* The globals as the program initialises them.
InitGlobals ==
    /\ markerSize = InitialMarkerSize
    /\ overlay = InitialOverlay
    /\ quit = FALSE
    /\ mousePosition = Point(0, 0)
    /\ zoomRect = Rect(0, 0, 0, 0)
    /\ imageName = <<>>

\* annotate() before its loop: the ledger is read, i is start_index.
InitSession(faulty, listings, ledgers) ==
    /\ InitGlobals
    /\ files \in listings
    /\ skipTo \in SkipTargets
    /\ i \in -1 .. Len(files)
    /\ skipped = (skipTo = <<>>)
    /\ ledgerFile \in ledgers
    /\ alreadyAnnotatedFiles = ledgerFile
    /\ alreadyAnnotated = FALSE
    /\ disk = [k \in 1 .. Len(files) |->
                 IF NameOf(files[k].path) \in Range(ledgerFile)
                 THEN MaskFile(ToGray(BlackImage(files[k].cols, files[k].rows)))
                 ELSE NoFile]
    /\ diskFaulty = faulty
    /\ written = [mask |-> TRUE, ledger |-> TRUE]
    /\ pc = "Loading"
    /\ cols = 0
    /\ rows = 0
    /\ imageGT = <<>>
    /\ strokes = 0
    /\ lastOp = "start"

\* annotate_image() waiting for its first event on a c x r image, the only
\* file of a run without a ledger; mask is its mask file in the output
\* directory (NoFile, or the file an earlier run left there).
InitInteractive(c, r, mask) ==
    /\ overlay = InitialOverlay
    /\ quit = FALSE
    /\ mousePosition = Point(0, 0)
    /\ zoomRect = Rect(0, 0, c, r)
    /\ imageName = N122
    /\ files = <<File(N122, TRUE, c, r)>>
    /\ skipTo = <<>>
    /\ i = 0
    /\ skipped = TRUE
    /\ ledgerFile = <<>>
    /\ alreadyAnnotatedFiles = <<>>
    /\ alreadyAnnotated = FALSE
    /\ disk = <<mask>>
    /\ diskFaulty = FALSE
    /\ written = [mask |-> TRUE, ledger |-> TRUE]
    /\ pc = "Interactive"
    /\ cols = c
    /\ rows = r
    /\ imageGT = IF mask.exists THEN FromGray(mask.gray) ELSE BlackImage(c, r)
    /\ strokes = 0
    /\ lastOp = "present"

(***************************************************************************)
(* Spec: the session, with painting, on a file system that works.          *)
(***************************************************************************)
Init == InitSession(FALSE, Listings, InitialLedgers)

Next ==
    \/ LoopExit
    \/ LoadFailed
    \/ PassOver
    \/ Present
    \/ PaintOnImage
    \/ NextImage
    \/ PreviousImage
    \/ Quit

Spec == Init /\ [][Next]_vars

\* The session of a program that keeps running: the loop condition of line
\* 350 is evaluated whenever control is back at the head of the loop.
SpecLive == Spec /\ WF_vars(LoopExit)

(***************************************************************************)
(* SpecFault: the session on a file system whose writes may fail.          *)
(***************************************************************************)
\* Two images in either order, 000123 readable or not, in the ledger or not.
FaultListings ==
    UNION {DirectoryOrders({File(N122, TRUE, 1, 1), File(N123, readable, 1, 1)}) :
              readable \in BOOLEAN}

InitFault ==
    /\ InitSession(TRUE, FaultListings, {<<>>, <<N123>>})
    /\ skipTo = <<>>
    /\ i = 0

SpecFault == InitFault /\ [][Next]_vars

(***************************************************************************)
(* SpecView: the viewport of one image under zoom, pan and reset.          *)
(***************************************************************************)
InitView ==
    /\ InitInteractive(ViewCols, ViewRows, NoFile)
    /\ markerSize = InitialMarkerSize

NextView ==
    \/ MoveEvent
    \/ WheelZoomEvent
    \/ KeyZoomIn
    \/ KeyZoomOut
    \/ KeyZoomReset
    \/ PanLeft
    \/ PanUp
    \/ PanRight
    \/ PanDown
    \/ Tick

SpecView == InitView /\ [][NextView]_vars

(***************************************************************************)
(* SpecInput: marker size and overlay under wheel steps, '+' / '-' and the *)
(* trackbars.                                                              *)
(***************************************************************************)
InitInput ==
    /\ InitInteractive(1, 1, NoFile)
    /\ markerSize = InitialMarkerSize

NextInput ==
    \/ WheelSizeEvent
    \/ WheelOverlayEvent
    \/ VerticalWheelEvent
    \/ KeyPlus
    \/ KeyMinus
    \/ onTrackbarSizeChange
    \/ onTrackbarBlendingChange

SpecInput == InitInput /\ [][NextInput]_vars

(***************************************************************************)
(* SpecPaint: mark() for every marker size in 0 .. MaxPaintSize and every  *)
(* cursor position, on the full image and on a zoomed viewport, on a new   *)
(* (black) mask and on a mask file that is all white.                      *)
(***************************************************************************)
WhiteMaskFile(c, r) == MaskFile([p \in Pixels(c, r) |-> 255])

InitPaint ==
    /\ \E mask \in {NoFile, WhiteMaskFile(PaintCols, PaintRows)} :
            InitInteractive(PaintCols, PaintRows, mask)
    /\ markerSize \in 0 .. MaxPaintSize

NextPaint == PaintEvent \/ KeyZoomIn

SpecPaint == InitPaint /\ [][NextPaint]_vars

(***************************************************************************)
(* SpecStrokes: sequences of marks, set and clear in any order, on a new   *)
(* mask shown in full, for every marker size in 0 .. MaxStrokeSize.        *)
(***************************************************************************)
InitStrokes ==
    /\ InitInteractive(StrokeCols, StrokeRows, NoFile)
    /\ markerSize \in 0 .. MaxStrokeSize

NextStrokes == PaintSequence

SpecStrokes == InitStrokes /\ [][NextStrokes]_vars

(***************************************************************************)
(* SpecAnchor: zoom and pan to the left on a large image, the cursor at    *)
(* the upper left corner or moved to AnchorCursor and held there.          *)
(***************************************************************************)
AnchorCursor == Point(108, 0)

InitAnchor ==
    /\ InitInteractive(AnchorCols, AnchorRows, NoFile)
    /\ markerSize = InitialMarkerSize

MoveToAnchor == MoveWithin({AnchorCursor.x}, {AnchorCursor.y})

NextAnchor ==
    \/ MoveToAnchor
    \/ WheelZoomEvent
    \/ KeyZoomIn
    \/ KeyZoomOut
    \/ PanLeft

SpecAnchor == InitAnchor /\ [][NextAnchor]_vars

(***************************************************************************)
(* SpecReset: a session of two images of different sizes, in either order  *)
(* of the directory, with zoom, pan,                                       *)
(* and the wheel steps of marker size and overlay.                         *)
(***************************************************************************)
ResetListings == DirectoryOrders({File(N122, TRUE, 7, 2), File(N123, TRUE, 2, 7)})

InitReset ==
    /\ InitSession(FALSE, ResetListings, {<<>>})
    /\ skipTo = <<>>
    /\ i = 0

NextReset ==
    \/ LoopExit
    \/ Present
    \/ NextImage
    \/ PreviousImage
    \/ KeyZoomIn
    \/ PanRight
    \/ WheelSizeEvent
    \/ WheelOverlayEvent

SpecReset == InitReset /\ [][NextReset]_vars

(***************************************************************************)
(* SpecWheel: the wheel steps with every modifier, the cursor where the    *)
(* program starts it, at the upper left corner of the window.              *)
(***************************************************************************)
InitWheel ==
    /\ InitInteractive(WheelCols, WheelRows, NoFile)
    /\ markerSize = InitialMarkerSize

NextWheel ==
    \/ WheelZoomEvent
    \/ WheelOverlayEvent
    \/ WheelSizeEvent
    \/ VerticalWheelEvent

SpecWheel == InitWheel /\ [][NextWheel]_vars

(***************************************************************************)
(* Properties.                                                             *)
(***************************************************************************)
FullRect == Rect(0, 0, cols, rows)

\* img with the pixels of [x1, x2] x [y1, y2] set to color, the rest kept.
SquareFilled(img, x1, y1, x2, y2, color) ==
    [p \in DOMAIN img |->
        IF x1 <= p[1] /\ p[1] <= x2 /\ y1 <= p[2] /\ p[2] <= y2
        THEN color ELSE img[p]]

\* A step of mark(): the colour it writes and the source point under the cursor.
MarkStep == lastOp' \in {"mark_set", "mark_clear"} /\ strokes' = strokes + 1
MarkColour == IF lastOp' = "mark_set" THEN WHITE ELSE BLACK
MarkPoint == global_pos(zoomRect, mousePosition', cols, rows)

\* C1 (SpecView): viewport containment.  After any sequence of zoom, pan and
\* reset operations, with any cursor position, the viewport rectangle lies
\* inside the image: 0 <= x, 0 <= y, x + width <= W and y + height <= H.
C1_ViewportContained ==
    /\ 0 <= zoomRect.x
    /\ 0 <= zoomRect.y
    /\ zoomRect.x + zoomRect.width <= cols
    /\ zoomRect.y + zoomRect.height <= rows

\* A zoom-out has pinned a zoomed viewport against the right and bottom edges.
C1_Witness ==
    /\ lastOp \in {"key_g", "wheel_zoom_out"}
    /\ zoomRect.x > 0 /\ zoomRect.x + zoomRect.width = cols
    /\ zoomRect.y > 0 /\ zoomRect.y + zoomRect.height = rows

\* C2 (SpecView): viewport non-collapse.  After any sequence of zoom and pan
\* operations the viewport rectangle has width >= 1 and height >= 1.
C2_NonCollapse == zoomRect.width >= 1 /\ zoomRect.height >= 1

\* C3 (SpecPaint), as claimed: a mark at source point p with radius r writes
\* exactly the filled square from p - r to p + r in both axes, clipped to the
\* image, and no other pixel.
C3_MarkCentredSquare ==
    [][MarkStep =>
        \A point \in {MarkPoint} :
            imageGT' = SquareFilled(imageGT,
                                    point.x - markerSize, point.y - markerSize,
                                    point.x + markerSize, point.y + markerSize,
                                    MarkColour)]_vars

\* C3 (SpecPaint), as amended: a mark at source point p with marker size
\* r >= 0 writes exactly the filled square from p - r to p in both axes (its
\* lower right corner is p), clipped to the image, and no other pixel.
C3_MarkCornerSquare ==
    [][MarkStep =>
        \A point \in {MarkPoint} :
            imageGT' = SquareFilled(imageGT,
                                    point.x - markerSize, point.y - markerSize,
                                    point.x, point.y, MarkColour)]_vars

\* One set-mark of size 1 at the lower right pixel of the full image: the
\* 2 x 2 square ending there is marked, the column left of it is not.
C3_Witness ==
    /\ lastOp = "mark_set" /\ strokes = 1 /\ markerSize = 1
    /\ zoomRect = FullRect
    /\ mousePosition = Point(cols - 1, rows - 1)
    /\ \A p \in DOMAIN imageGT :
        imageGT[p] = IF p[1] >= cols - 2 /\ p[2] >= rows - 2 THEN WHITE ELSE BLACK

\* C4 (SpecInput): mark radius bound.  After any sequence of wheel steps and
\* '+' / '-' key commands the mark radius stays within [1, 50].
C4_RadiusBound == WheelMarkerMin <= markerSize /\ markerSize <= WheelMarkerMax

\* C5 (Spec): an unreadable image is skipped.  When the image at index i
\* cannot be loaded, the loop iteration moves on to i + 1 (or the session
\* ends) and creates neither a mask nor a ledger entry.
C5_UnreadableSkipped ==
    [][(pc = "Loading" /\ InRange /\ ~CurrentFile.readable) =>
        /\ i' = i + 1 \/ pc' = "Done"
        /\ disk' = disk
        /\ ledgerFile' = ledgerFile]_vars

\* C6 (Spec): the ledger has no duplicates.  After any sequence of Advance
\* transitions the ledger file holds each image identity at most once.
C6_LedgerNoDuplicates ==
    \A a, b \in 1 .. Len(ledgerFile) : a # b => ledgerFile[a] # ledgerFile[b]

\* C7 (Spec): Advance persists.  On every Advance(delta) from image i, for
\* delta = +1 and delta = -1 alike, also when i + delta is outside the list,
\* the current mask (in gray) is in image i's mask file and image i's
\* identity is in the ledger when the session is back at Loading for i + delta.
C7_AdvancePersists ==
    [][(pc = "Interactive" /\ pc' = "Loading") =>
        /\ i' = i + 1 \/ i' = i - 1
        /\ disk'[i + 1] = MaskFile(ToGray(imageGT))
        /\ \A k \in 1 .. Len(files) : k # i + 1 => disk'[k] = disk[k]
        /\ NameOf(CurrentFile.path) \in Range(ledgerFile')]_vars

\* 'previous' on the first image: its painted mask is saved and its identity
\* recorded although the index has left the list.
C7_Witness ==
    /\ lastOp = "previous" /\ pc = "Loading" /\ i = -1
    /\ disk[1] = MaskFile([p \in Pixels(1, 1) |-> 255])
    /\ NameOf(files[1].path) \in Range(ledgerFile)

\* C8 (Spec): Quit discards the image in progress.  While an image is edited
\* the mask files and the ledger stay as they were when it was entered; the
\* quit step writes no mask and no ledger entry, leaves the index alone and
\* ends the session; after it nothing changes any more.
C8_QuitDiscards ==
    [][/\ (pc = "Interactive" /\ pc' # "Loading") =>
            (disk' = disk /\ ledgerFile' = ledgerFile)
       /\ quit' => (pc' = "Done" /\ i' = i /\ disk' = disk /\ ledgerFile' = ledgerFile)
       /\ ~quit]_vars

\* Quit on a painted image that was never saved: no mask file, no ledger line.
C8_Witness ==
    /\ quit /\ pc = "Done" /\ lastOp = "quit"
    /\ InRange /\ imageGT = [p \in Pixels(1, 1) |-> WHITE]
    /\ ~disk[i + 1].exists
    /\ imageName \notin Range(ledgerFile)

\* The scenario of the resume policy: ledger {000123, 000124}, images
\* 000122 .. 000125 (all readable), no skip target.
ResumeScenario ==
    /\ [k \in 1 .. Len(files) |-> NameOf(files[k].path)] = <<N122, N123, N124, N125>>
    /\ alreadyAnnotatedFiles = <<N123, N124>>
    /\ skipTo = <<>>
    /\ \A k \in 1 .. Len(files) : files[k].readable

\* C9 (Spec), as claimed: for any start index and skip target, an image whose
\* identity is in the ledger is never presented for editing; in the scenario,
\* the first image presented is 000125.
C9_NeverPresentsCompleted ==
    /\ pc = "Interactive" => imageName \notin Range(ledgerFile)
    /\ (ResumeScenario /\ pc = "Interactive" /\ ledgerFile = alreadyAnnotatedFiles)
            => imageName = N125

\* C9 (Spec), as amended: an image whose identity was in the ledger when the
\* run started is never presented for editing unless it is the requested skip
\* target; passing over images only moves the index forward.  In the scenario
\* a run from index 0 first presents 000122, only 000122 and 000125 are ever
\* presented, and from 000123 and 000124 the session passes on to 000125.
C9_ResumePolicy ==
    [][/\ pc' = "Interactive" =>
            (imageName' \notin Range(alreadyAnnotatedFiles) \/ imageName' = skipTo)
       /\ (pc = "Loading" /\ pc' = "Loading") => i' >= i
       /\ (ResumeScenario /\ lastOp = "start" /\ i = 0) =>
            (pc' = "Interactive" /\ imageName' = N122)
       /\ (ResumeScenario /\ pc' = "Interactive") => imageName' \in {N122, N125}
       /\ (ResumeScenario /\ pc = "Loading" /\ i \in {1, 2}) =>
            (pc' = "Loading" /\ i' = i + 1)
       /\ (ResumeScenario /\ pc = "Loading" /\ i = 3) =>
            (pc' = "Interactive" /\ imageName' = N125)]_vars

\* The scenario, run from index 0: 000122 was presented and saved, 000123 and
\* 000124 were passed over, 000125 is presented.
C9_Witness ==
    /\ ResumeScenario
    /\ pc = "Interactive" /\ lastOp = "present" /\ imageName = N125
    /\ ledgerFile = <<N123, N124, N122>>

\* C10 (SpecFault): a persistence failure is surfaced.  If writing the mask
\* or the ledger entry fails on Advance, the image is not recorded as
\* completed and the session does not go on to load the next image.
C10_FailureSurfaced ==
    [][(pc = "Interactive" /\ lastOp' \in {"next", "previous"}
            /\ (~written'.mask \/ ~written'.ledger)) =>
        (imageName \notin Range(ledgerFile') /\ pc' # "Loading")]_vars

\* A step that calls zoom(), and the factor it passes.
ZoomStep ==
    /\ pc = "Interactive"
    /\ \/ lastOp' \in {"wheel_zoom_in", "wheel_zoom_out"}
       \/ lastOp' \in {"key_f", "key_g"} /\ ~CursorOutside

ZoomFactor ==
    CASE lastOp' = "key_f" -> ZoomInKey
      [] lastOp' = "key_g" -> ZoomOutKey
      [] lastOp' = "wheel_zoom_in" -> ZoomInWheel
      [] OTHER -> ZoomOutWheel

\* The source point under the cursor before and after the step.
AnchorBefore == global_pos(zoomRect, mousePosition, cols, rows)
AnchorAfter == global_pos(zoomRect', mousePosition', cols, rows)

\* One of the clamps of zoom() changes a value in this step: the min of lines
\* 67-68, or the max / min of lines 71-80.
ZoomClampBinds ==
    \/ ScaleInt(zoomRect.width, ZoomFactor) > cols
    \/ ScaleInt(zoomRect.height, ZoomFactor) > rows
    \/ Reanchor(AnchorBefore.x, mousePosition.x, zoomRect'.width, cols)
            \notin 0 .. cols - zoomRect'.width
    \/ Reanchor(AnchorBefore.y, mousePosition.y, zoomRect'.height, rows)
            \notin 0 .. rows - zoomRect'.height

Distance(a, b) == IF a >= b THEN a - b ELSE b - a

\* C11 (SpecAnchor): zoom anchor.  On every zoom step in which neither the
\* size clamp nor the position clamp binds, the source point under the cursor
\* before the zoom and the one after it differ by at most 1 pixel in each axis
\* (stated for the steps between viewports that are not empty).
C11_ZoomAnchor ==
    [][(ZoomStep /\ ~ZoomClampBinds /\ Renderable(zoomRect) /\ Renderable(zoomRect')) =>
        /\ Distance(AnchorAfter.x, AnchorBefore.x) <= 1
        /\ Distance(AnchorAfter.y, AnchorBefore.y) <= 1]_vars

\* The factor of the step as the fraction num / den that the source writes
\* (0.8, 1.0 / 0.8, 0.95, 1.0 / 0.95).
ZoomFraction ==
    CASE lastOp' = "key_f" -> [num |-> 4, den |-> 5]
      [] lastOp' = "key_g" -> [num |-> 5, den |-> 4]
      [] lastOp' = "wheel_zoom_in" -> [num |-> 19, den |-> 20]
      [] OTHER -> [num |-> 20, den |-> 19]

\* round(length * num / den), halves upwards, in exact arithmetic.
RoundScaled(length, fraction) ==
    (2 * length * fraction.num + fraction.den) \div (2 * fraction.den)


\* position is clamp(v, 0, size - length) for an integer v less than one
\* pixel away from anchor - (mouse / size) * length.
AnchoredPosition(position, anchor, mouse, length, size) ==
    \E v \in -size .. size :
        /\ Distance(size * v, size * anchor - mouse * length) < size
        /\ position = Clamp(v, 0, size - length)

\* C12 (SpecView): the zoom formula.  Every zoom step with the cursor on the
\* image sets width = min(W, round(width * factor)) and height = min(H,
\* round(height * factor)), then x = clamp(anchor.x - widthRatio * width, 0,
\* W - width) and y likewise, anchor being the source point under the cursor
\* before the step.
C12_ZoomFormula ==
    [][(ZoomStep /\ mousePosition.x < cols /\ mousePosition.y < rows) =>
        /\ zoomRect'.width = Min(cols, RoundScaled(zoomRect.width, ZoomFraction))
        /\ zoomRect'.height = Min(rows, RoundScaled(zoomRect.height, ZoomFraction))
        /\ AnchoredPosition(zoomRect'.x, AnchorBefore.x, mousePosition.x,
                            zoomRect'.width, cols)
        /\ AnchoredPosition(zoomRect'.y, AnchorBefore.y, mousePosition.y,
                            zoomRect'.height, rows)]_vars

\* The part of the formula that the source computes: the position.
C12_ZoomPosition ==
    [][(ZoomStep /\ mousePosition.x < cols /\ mousePosition.y < rows) =>
        /\ AnchoredPosition(zoomRect'.x, AnchorBefore.x, mousePosition.x,
                            zoomRect'.width, cols)
        /\ AnchoredPosition(zoomRect'.y, AnchorBefore.y, mousePosition.y,
                            zoomRect'.height, rows)]_vars

\* C13 (SpecLive): out-of-range navigation terminates.  Whenever the session
\* is back at the head of the loop with the index below 0 or >= the list
\* length (after 'previous' on the first image, 'next' on the last, or passing
\* over the rest of the list), its next step ends the session, loading no
\* image and changing no file; nothing follows the end; and the end is reached.
C13_OutOfRangeTerminates ==
    /\ [][/\ (pc = "Loading" /\ ~InRange) =>
               /\ pc' = "Done" /\ ~quit'
               /\ UNCHANGED <<i, imageName, cols, rows, imageGT, disk, ledgerFile>>
           /\ pc # "Done"]_vars
    /\ (pc = "Loading" /\ ~InRange) ~> (pc = "Done")

\* 'previous' on the first image: it is saved, then the session has ended.
C13_Witness ==
    /\ pc = "Done" /\ lastOp = "exit" /\ ~quit /\ i = -1
    /\ imageName = NameOf(files[1].path)
    /\ imageName \in Range(ledgerFile)

\* C14 (SpecReset): per-image reset.  Every entry to Interactive, whatever
\* viewport the image before was left with, starts on the full image
\* (0, 0, W, H) of the image entered, and marker size and overlay have the
\* values with which the image before was left: no step outside the editing
\* of an image changes them.
C14_PerImageReset ==
    [][/\ (pc = "Loading" /\ pc' = "Interactive") =>
            /\ cols' = CurrentFile.cols /\ rows' = CurrentFile.rows
            /\ zoomRect' = Rect(0, 0, cols', rows')
       /\ (pc # "Interactive" \/ pc' # "Interactive") =>
            (markerSize' = markerSize /\ overlay' = overlay)]_vars

\* The second image is entered after the first was saved: the viewport is the
\* full second image, marker size and overlay are not the initial ones.
C14_Witness ==
    /\ pc = "Interactive" /\ lastOp = "present" /\ i = 1
    /\ ledgerFile = <<N122>>
    /\ zoomRect = Rect(0, 0, 2, 7)
    /\ markerSize = InitialMarkerSize + 1
    /\ overlay = InitialOverlay - OverlayStep

\* C15 (SpecPaint): mark idempotence.  For every mask, cursor, marker size and
\* mode, the mask after a mark is the mask that the same mark applied to it
\* once more gives.
C15_MarkIdempotent ==
    [][MarkStep =>
        mark(imageGT', lastOp' = "mark_set", zoomRect, mousePosition', markerSize,
             cols, rows) = imageGT']_vars

\* A set-mark on a zoomed viewport has painted part of a black mask.
C15_Witness ==
    /\ lastOp = "mark_set" /\ strokes = 1 /\ markerSize = 1
    /\ zoomRect # FullRect /\ Renderable(zoomRect)
    /\ \E p, q \in DOMAIN imageGT : imageGT[p] = WHITE /\ imageGT[q] = BLACK
    /\ mark(imageGT, TRUE, zoomRect, mousePosition, markerSize, cols, rows) = imageGT

\* The pixels of the square that a mark at the source point writes.
MarkSquare(point) ==
    {p \in DOMAIN imageGT :
        /\ point.x - markerSize <= p[1] /\ p[1] <= point.x
        /\ point.y - markerSize <= p[2] /\ p[2] <= point.y}

\* C16 (SpecStrokes): marks on disjoint regions.  A mark changes no pixel
\* outside its own square; and when a set-mark has painted region A and the
\* clear-mark that follows paints a region B disjoint from A, every pixel of A
\* is marked before and after the clear-mark.
C16_MarkFrame ==
    [][MarkStep =>
        \A point \in {MarkPoint} :
            /\ \A p \in DOMAIN imageGT \ MarkSquare(point) : imageGT'[p] = imageGT[p]
            /\ (lastOp = "mark_set" /\ lastOp' = "mark_clear") =>
                \A before \in {global_pos(zoomRect, mousePosition, cols, rows)} :
                    MarkSquare(before) \cap MarkSquare(point) = {} =>
                        \A p \in MarkSquare(before) :
                            imageGT[p] = WHITE /\ imageGT'[p] = WHITE]_vars

\* On a new mask a set-mark has painted the left pixel and the clear-mark
\* after it the two pixels to the right: the left pixel is still marked.
C16_Witness ==
    /\ lastOp = "mark_clear" /\ strokes = 2 /\ markerSize = 1
    /\ zoomRect = FullRect /\ ~disk[1].exists
    /\ mousePosition = Point(cols - 1, rows - 1)
    /\ \A p \in DOMAIN imageGT : imageGT[p] = IF p[1] = 0 THEN WHITE ELSE BLACK

\* C17 (SpecInput): blend factor bound.  In every reachable state, after any
\* sequence of wheel steps with the coarse modifier, and of the other wheel
\* steps and keys, the blend factor is within [0, 100].
C17_OverlayBound == 0 <= overlay /\ overlay <= 100

\* A coarse wheel step upwards has ended at the upper limit.
C17_Witness == overlay = 100 /\ lastOp = "wheel_overlay_up"

\* A step of the wheel that onMouse handles, by the component it selects.
WheelSteps == {"wheel_zoom_in", "wheel_zoom_out", "wheel_overlay_up",
               "wheel_overlay_down", "wheel_size_up", "wheel_size_down"}
WheelStep == lastOp' \in WheelSteps

\* The modifiers select the branch: ctrl the viewport, shift without ctrl the
\* blend factor, neither the marker size.
WheelDispatch ==
    \A flags \in SUBSET {"CTRLKEY", "SHIFTKEY"}, inwards \in BOOLEAN :
        MouseBranch("MOUSEHWHEEL", flags, inwards) =
            IF "CTRLKEY" \in flags
            THEN (IF inwards THEN "wheel_zoom_in" ELSE "wheel_zoom_out")
            ELSE IF "SHIFTKEY" \in flags
            THEN (IF inwards THEN "wheel_overlay_up" ELSE "wheel_overlay_down")
            ELSE (IF inwards THEN "wheel_size_up" ELSE "wheel_size_down")

\* C18 (SpecWheel), as claimed: a wheel step changes exactly one of viewport,
\* blend factor and marker size, chosen by the modifiers with ctrl before
\* shift: the viewport, or the blend factor by 5, or the marker size by 1; mask
\* and stored cursor position are unchanged.
C18_ExactlyOneChanges ==
    [][WheelStep =>
        /\ WheelDispatch
        /\ imageGT' = imageGT /\ mousePosition' = mousePosition
        /\ lastOp' \in {"wheel_zoom_in", "wheel_zoom_out"} =>
            (zoomRect' # zoomRect /\ overlay' = overlay /\ markerSize' = markerSize)
        /\ lastOp' \in {"wheel_overlay_up", "wheel_overlay_down"} =>
            /\ Distance(overlay', overlay) = 5
            /\ zoomRect' = zoomRect /\ markerSize' = markerSize
        /\ lastOp' \in {"wheel_size_up", "wheel_size_down"} =>
            /\ Distance(markerSize', markerSize) = 1
            /\ zoomRect' = zoomRect /\ overlay' = overlay]_vars

\* C18 (SpecWheel), as amended: a wheel step sets exactly one of viewport,
\* blend factor and marker size, chosen by the modifiers with ctrl before
\* shift, and leaves the other two, the mask and the stored cursor position
\* unchanged: the viewport becomes zoom(0.95) or zoom(1 / 0.95) at the cursor;
\* the blend factor becomes min(b + 5, 100) or max(b - 5, 0); the marker size
\* becomes min(m + 1, 50) or max(m - 1, 1).
C18_WheelDispatch ==
    [][WheelStep =>
        /\ WheelDispatch
        /\ imageGT' = imageGT /\ mousePosition' = mousePosition
        /\ lastOp' \in {"wheel_zoom_in", "wheel_zoom_out"} =>
            /\ zoomRect' = zoom(ZoomFactor, zoomRect, mousePosition, cols, rows)
            /\ overlay' = overlay /\ markerSize' = markerSize
        /\ lastOp' \in {"wheel_overlay_up", "wheel_overlay_down"} =>
            /\ overlay' = IF lastOp' = "wheel_overlay_up"
                          THEN Min(overlay + 5, 100) ELSE Max(overlay - 5, 0)
            /\ zoomRect' = zoomRect /\ markerSize' = markerSize
        /\ lastOp' \in {"wheel_size_up", "wheel_size_down"} =>
            /\ markerSize' = IF lastOp' = "wheel_size_up"
                             THEN Min(markerSize + 1, 50) ELSE Max(markerSize - 1, 1)
            /\ zoomRect' = zoomRect /\ overlay' = overlay]_vars

\* A ctrl wheel step has shrunk the viewport while marker size and overlay,
\* set by earlier steps, stayed.
C18_Witness ==
    /\ lastOp = "wheel_zoom_in"
    /\ zoomRect.width < cols /\ Renderable(zoomRect)
    /\ markerSize = InitialMarkerSize - 1
    /\ overlay = InitialOverlay + OverlayStep

\* A pan step: 'a' and 'w' towards 0, 'd' and 's' away from it.
PanStep == pc = "Interactive" /\ lastOp' \in {"key_a", "key_w", "key_d", "key_s"}

\* to is from moved by 20% of length (an integer less than one pixel away from
\* it) towards 0 or away from it, clamped to [0, size - length]; and it has
\* moved unless it is at the end of that range.
Panned(from, to, length, size, towardsZero) ==
    /\ \E step \in 0 .. length :
            /\ Distance(5 * step, length) < 5
            /\ to = Clamp(IF towardsZero THEN from - step ELSE from + step,
                          0, size - length)
    /\ to # from \/ to = (IF towardsZero THEN 0 ELSE size - length)

\* C19 (SpecView): pan.  Each pan command translates only x (left / right) or
\* only y (up / down) by 20% of the current width / height in the requested
\* direction, clamped to [0, W - width] / [0, H - height], leaves width, height
\* and the other coordinate unchanged, and moves the viewport unless the clamp
\* binds.
C19_Pan ==
    [][PanStep =>
        /\ zoomRect'.width = zoomRect.width /\ zoomRect'.height = zoomRect.height
        /\ lastOp' \in {"key_a", "key_d"} =>
            /\ zoomRect'.y = zoomRect.y
            /\ Panned(zoomRect.x, zoomRect'.x, zoomRect.width, cols, lastOp' = "key_a")
        /\ lastOp' \in {"key_w", "key_s"} =>
            /\ zoomRect'.x = zoomRect.x
            /\ Panned(zoomRect.y, zoomRect'.y, zoomRect.height, rows, lastOp' = "key_w")]_vars

\* The part of the claim without the last clause: what a pan translates.
C19_PanTranslates ==
    [][PanStep =>
        /\ zoomRect'.width = zoomRect.width /\ zoomRect'.height = zoomRect.height
        /\ lastOp' \in {"key_a", "key_d"} =>
            /\ zoomRect'.y = zoomRect.y
            /\ \E step \in 0 .. zoomRect.width :
                    /\ Distance(5 * step, zoomRect.width) < 5
                    /\ zoomRect'.x = Clamp(IF lastOp' = "key_a" THEN zoomRect.x - step
                                           ELSE zoomRect.x + step,
                                           0, cols - zoomRect.width)
        /\ lastOp' \in {"key_w", "key_s"} =>
            /\ zoomRect'.x = zoomRect.x
            /\ \E step \in 0 .. zoomRect.height :
                    /\ Distance(5 * step, zoomRect.height) < 5
                    /\ zoomRect'.y = Clamp(IF lastOp' = "key_w" THEN zoomRect.y - step
                                           ELSE zoomRect.y + step,
                                           0, rows - zoomRect.height)]_vars

\* The source point lies in the rectangle.
InsideRect(point, rect) ==
    /\ rect.x <= point.x /\ point.x < rect.x + rect.width
    /\ rect.y <= point.y /\ point.y < rect.y + rect.height

\* C20 (SpecView): the source point stays inside the viewport.  While an image
\* is edited, for the viewport reached and every cursor position (cx, cy) with
\* 0 <= cx < W and 0 <= cy < H, global_pos is a point of the viewport
\* rectangle, and so of the image.
C20_SourceInsideViewport ==
    pc = "Interactive" =>
        \A cx \in 0 .. cols - 1, cy \in 0 .. rows - 1 :
            \A point \in {global_pos(zoomRect, Point(cx, cy), cols, rows)} :
                /\ InsideRect(point, zoomRect)
                /\ InsideRect(point, FullRect)

\* The same for the viewports that are not empty.
C20_InsideNonEmptyViewport ==
    (pc = "Interactive" /\ Renderable(zoomRect)) =>
        \A cx \in 0 .. cols - 1, cy \in 0 .. rows - 1 :
            \A point \in {global_pos(zoomRect, Point(cx, cy), cols, rows)} :
                /\ InsideRect(point, zoomRect)
                /\ InsideRect(point, FullRect)

\* A step that calls zoom() with a factor above 1: 'g' or a ctrl wheel step
\* outwards.
ZoomOutStep == ZoomStep /\ lastOp' \in {"key_g", "wheel_zoom_out"}

\* C21 (SpecView): zoom-out makes progress.  On every zoom-out step from a
\* viewport reached by zooming in, here one that is not empty, neither width
\* nor height shrinks, the width grows whenever it is below W and the height
\* whenever it is below H, and the full-image viewport stays as it is.
C21_ZoomOutProgress ==
    [][(ZoomOutStep /\ Renderable(zoomRect)) =>
        /\ zoomRect'.width >= zoomRect.width
        /\ zoomRect'.height >= zoomRect.height
        /\ zoomRect.width < cols => zoomRect'.width > zoomRect.width
        /\ zoomRect.height < rows => zoomRect'.height > zoomRect.height
        /\ zoomRect = FullRect => zoomRect' = FullRect]_vars

\* What holds of a zoom-out step from any viewport: neither width nor height
\* shrinks, each becomes min(size, int(length * factor)), and the full-image
\* viewport stays as it is.
C21_ZoomOutNeverShrinks ==
    [][ZoomOutStep =>
        /\ zoomRect'.width >= zoomRect.width
        /\ zoomRect'.height >= zoomRect.height
        /\ zoomRect'.width = Min(cols, ScaleInt(zoomRect.width, ZoomFactor))
        /\ zoomRect'.height = Min(rows, ScaleInt(zoomRect.height, ZoomFactor))
        /\ zoomRect = FullRect => zoomRect' = FullRect]_vars

\* A viewport smaller than the image that 'g' has left as it was, and that
\* another 'g' at this cursor leaves as it is.
C21_StuckViewport ==
    /\ pc = "Interactive" /\ lastOp = "key_g" /\ ~CursorOutside
    /\ Renderable(zoomRect) /\ zoomRect # FullRect
    /\ zoom(ZoomOutKey, zoomRect, mousePosition, cols, rows) = zoomRect

====
